---- MODULE Spec2Model ----
(***************************************************************************)
(* State-machine model of MorrisII.cpp: one execution of MorrisII::Run()   *)
(* over a file system.  Strings are sequences of one-character strings,    *)
(* files map a name to its content (a string holding "\n" line ends), and  *)
(* std::map / std::set are sequences kept sorted by std::less<string>.     *)
(***************************************************************************)
EXTENDS Integers, Sequences, FiniteSets, TLC

VARIABLES
    pc,                 \* position of the single thread inside Run()
    contacts,           \* std::vector<std::string> contacts
    connected_systems,  \* std::map<std::string, std::set<std::string>>
    infected_systems,   \* std::set<std::string> infected_systems
    files,              \* the file system: name -> content
    unopenable,         \* names that cannot be opened for writing
    idx,                \* position of the Scan loop in contacts (1-based)
    hostIdx,            \* position of the outer Propagate loop in the map
    sysIdx,             \* position of the inner Propagate loop in the set
    invocations,        \* history: arguments of ProcessAdversarialPrompt
    files0,             \* history: the file system when the run started
    run,                \* "first" or "second" execution of the program
    prevRun             \* history: ledger lines the previous run appended

vars == <<pc, contacts, connected_systems, infected_systems, files, unopenable,
          idx, hostIdx, sysIdx, invocations, files0, run, prevRun>>

(***************************************************************************)
(* Bounds of the explored inputs.                                          *)
(***************************************************************************)
MaxLineLen == 3
MaxTopoLines == 2
MaxContacts == 2

(***************************************************************************)
(* Characters and string literals of the program.                          *)
(***************************************************************************)
NL == "\n"
SP == " "

Marker == <<"a","d","v","e","r","s","a","r","i","a","l","_","k","e","y","w","o","r","d">>
SpamContent == <<"T","h","i","s"," ","i","s"," ","a"," ","s","p","a","m"," ","e","m","a","i","l",".">>
ReplicationSuffix == <<" ","r","e","p","l","i","c","a","t","e","d","_","p","r","o","m","p","t">>
SpamFileSuffix == <<"_","s","p","a","m","_","e","m","a","i","l",".","t","x","t">>
ReplicatedFileSuffix == <<"_","r","e","p","l","i","c","a","t","e","d","_","e","m","a","i","l",".","t","x","t">>
DataFile == <<"d","a","t","a",".","t","x","t">>
StolenFile == <<"s","t","o","l","e","n","_","d","a","t","a",".","t","x","t">>
ContactsFile == <<"c","o","n","t","a","c","t","s",".","t","x","t">>
SystemsFile == <<"c","o","n","n","e","c","t","e","d","_","s","y","s","t","e","m","s",".","t","x","t">>
TransmissionLog == <<"t","r","a","n","s","m","i","s","s","i","o","n","_","l","o","g",".","t","x","t">>
InfectionLog == <<"i","n","f","e","c","t","i","o","n","_","l","o","g",".","t","x","t">>
Arrow == <<" ","-",">"," ">>
InfectedWord == <<" ","i","n","f","e","c","t","e","d"," ">>

(***************************************************************************)
(* size_t arithmetic.  size_t is unsigned and wraps modulo 2^w; TLC's      *)
(* integers are 32 bits wide, so the width is scaled to 16 bits.  The code *)
(* relies on one fact only, npos + 1 = 0, which holds for every width.     *)
(***************************************************************************)
SizeMod == 65536
npos == SizeMod - 1

SizeAdd_NoWrap(a, b) == a + b

SizeAdd(a, b) == (a + b) % SizeMod

Min(a, b) == IF a < b THEN a ELSE b

(***************************************************************************)
(* std::string operations (positions are 0-based, as in C++).               *)
(***************************************************************************)
\* s.find(pat) scanning from position from: first match or npos
RECURSIVE FindFrom(_, _, _)
FindFrom(s, pat, from) ==
    IF from + Len(pat) > Len(s) THEN npos
    ELSE IF SubSeq(s, from + 1, from + Len(pat)) = pat THEN from
    ELSE FindFrom(s, pat, from + 1)

Find(s, pat) == FindFrom(s, pat, 0)

\* s.substr(pos, count) throws std::out_of_range when pos > size()
SubstrThrows(s, pos) == pos > Len(s)

Substr(s, pos, count) ==
    LET rlen == Min(count, Len(s) - pos)
    IN  SubSeq(s, pos + 1, pos + rlen)

\* code unit of a character, as compared by std::char_traits<char>; the
\* table holds the characters that occur in hosts and systems
Ord(c) ==
    CASE c = SP -> 32
      [] c = "a" -> 97
      [] c = "b" -> 98

\* std::less<std::string>: lexicographic comparison of the code units
RECURSIVE StdLess(_, _)
StdLess(a, b) ==
    IF b = <<>> THEN FALSE
    ELSE IF a = <<>> THEN TRUE
    ELSE IF Ord(Head(a)) < Ord(Head(b)) THEN TRUE
    ELSE IF Ord(Head(b)) < Ord(Head(a)) THEN FALSE
    ELSE StdLess(Tail(a), Tail(b))

(***************************************************************************)
(* File streams.                                                           *)
(***************************************************************************)
\* std::getline until it fails: the lines of a file; a last line without a
\* line end is still returned, an empty rest is not
RECURSIVE ReadLinesFrom(_, _)
ReadLinesFrom(text, cur) ==
    IF text = <<>> THEN (IF cur = <<>> THEN <<>> ELSE <<cur>>)
    ELSE IF Head(text) = NL THEN <<cur>> \o ReadLinesFrom(Tail(text), <<>>)
    ELSE ReadLinesFrom(Tail(text), Append(cur, Head(text)))

ReadLines_PhantomLine(fs, name) ==
    IF name \in DOMAIN fs THEN ReadLinesFrom(fs[name], <<>>) ELSE << <<>> >>

\* std::ifstream f(name); while (std::getline(f, line)): a missing file
\* yields a failed stream and no line
ReadLines(fs, name) ==
    IF name \in DOMAIN fs THEN ReadLinesFrom(fs[name], <<>>) ELSE <<>>

\* std::ofstream f(name): did the open succeed
CanOpenForWrite(name) == name \notin unopenable

SetFile(fs, name, text) ==
    [n \in DOMAIN fs \cup {name} |-> IF n = name THEN text ELSE fs[n]]

\* std::ofstream f(name) without std::ios::app: creates or truncates the file
OpenTruncate(fs, name) ==
    IF CanOpenForWrite(name) THEN SetFile(fs, name, <<>>) ELSE fs

\* f << text on a stream opened on name; a failed stream drops the text
WriteTo(fs, name, text) ==
    IF CanOpenForWrite(name) /\ name \in DOMAIN fs
    THEN SetFile(fs, name, fs[name] \o text)
    ELSE fs

\* std::ofstream f(name, std::ios::app): creates the file, keeps its content
OpenAppend(fs, name) ==
    IF CanOpenForWrite(name) /\ name \notin DOMAIN fs
    THEN SetFile(fs, name, <<>>)
    ELSE fs

(***************************************************************************)
(* std::set<std::string> and std::map<std::string, std::set<..>> as        *)
(* sequences in iteration order (ascending by std::less, no duplicates).   *)
(***************************************************************************)
Elems(s) == {s[i] : i \in 1..Len(s)}

InsertAt(s, k, x) == SubSeq(s, 1, k) \o <<x>> \o SubSeq(s, k + 1, Len(s))

SetInsert_Unsorted(s, x) == IF x \in Elems(s) THEN s ELSE Append(s, x)

\* std::set::insert
SetInsert(s, x) ==
    IF x \in Elems(s) THEN s
    ELSE InsertAt(s, Cardinality({i \in 1..Len(s) : StdLess(s[i], x)}), x)

Keys(m) == {m[i].key : i \in 1..Len(m)}

KeyIndex(m, k) == CHOOSE i \in 1..Len(m) : m[i].key = k

\* std::map::operator[]: a missing key is inserted with an empty set
MapSubscript(m, k) ==
    IF k \in Keys(m) THEN m
    ELSE InsertAt(m, Cardinality({i \in 1..Len(m) : StdLess(m[i].key, k)}),
                  [key |-> k, val |-> <<>>])

AddEdge_Overwrite(m, host, system) ==
    LET m1 == MapSubscript(m, host)
    IN  [m1 EXCEPT ![KeyIndex(m1, host)].val = <<system>>]

\* connected_systems[host].insert(connected_system)
AddEdge(m, host, system) ==
    LET m1 == MapSubscript(m, host)
    IN  [m1 EXCEPT ![KeyIndex(m1, host)].val = SetInsert(@, system)]

(***************************************************************************)
(* The functions of namespace MorrisII.                                    *)
(***************************************************************************)
IsAdversarialPrompt_PrefixOnly(email) == Find(email, Marker) = 0

IsAdversarialPrompt(email) == Find(email, Marker) # npos

\* the loop body of IdentifyConnectedSystems on one line
DelimiterPos(line) == Find(line, <<SP>>)

HostOf(line) == Substr(line, 0, DelimiterPos(line))

SystemPos(line) == SizeAdd(DelimiterPos(line), 1)

SystemOf(line) == Substr(line, SystemPos(line), npos)

\* the while loop of IdentifyConnectedSystems over the lines read; threw
\* records an uncaught std::out_of_range from substr
RECURSIVE BuildFrom(_, _)
BuildFrom(lines, m) ==
    IF lines = <<>> THEN [map |-> m, threw |-> FALSE]
    ELSE LET line == Head(lines)
         IN  IF SubstrThrows(line, SystemPos(line))
             THEN [map |-> m, threw |-> TRUE]
             ELSE BuildFrom(Tail(lines), AddEdge(m, HostOf(line), SystemOf(line)))

IdentifyConnectedSystems(fs, m) == BuildFrom(ReadLines(fs, SystemsFile), m)

\* the copy loop of StealData: stolen_data_stream << data << std::endl
RECURSIVE CopyLines(_, _)
CopyLines(fs, lines) ==
    IF lines = <<>> THEN fs
    ELSE CopyLines(WriteTo(fs, StolenFile, Head(lines) \o <<NL>>), Tail(lines))

\* both streams are constructed (and the output file truncated) before the
\* test of the two streams
StealData(fs) ==
    LET data_ok == DataFile \in DOMAIN fs
        fs1 == OpenTruncate(fs, StolenFile)
    IN  IF data_ok /\ CanOpenForWrite(StolenFile)
        THEN CopyLines(fs1, ReadLines(fs, DataFile))
        ELSE fs1

\* for each contact: open contact + suffix truncating, write text if open
RECURSIVE WriteEach(_, _, _, _)
WriteEach(fs, cs, suffix, text) ==
    IF cs = <<>> THEN fs
    ELSE LET name == Head(cs) \o suffix
         IN  WriteEach(WriteTo(OpenTruncate(fs, name), name, text),
                       Tail(cs), suffix, text)

SendSpamEmails(fs) == WriteEach(fs, contacts, SpamFileSuffix, SpamContent)

RECURSIVE AppendEach(_, _, _, _)
AppendEach(fs, cs, suffix, text) ==
    IF cs = <<>> THEN fs
    ELSE LET name == Head(cs) \o suffix
         IN  AppendEach(WriteTo(OpenAppend(fs, name), name, text),
                        Tail(cs), suffix, text)

ReplicatePrompt_Append(fs, email) ==
    AppendEach(fs, contacts, ReplicatedFileSuffix, email \o ReplicationSuffix)

ReplicatePrompt(fs, email) ==
    WriteEach(fs, contacts, ReplicatedFileSuffix, email \o ReplicationSuffix)

LogTransmission_Truncate(fs, host, system) ==
    WriteTo(OpenTruncate(fs, TransmissionLog), TransmissionLog,
            host \o Arrow \o system \o <<NL>>)

LogTransmission(fs, host, system) ==
    WriteTo(OpenAppend(fs, TransmissionLog), TransmissionLog,
            host \o Arrow \o system \o <<NL>>)

LogInfection(fs, host, system) ==
    WriteTo(OpenAppend(fs, InfectionLog), InfectionLog,
            host \o InfectedWord \o system \o <<NL>>)

(***************************************************************************)
(* Run(): one action per step of the thread.                               *)
(***************************************************************************)
\* Initialize(): load contacts.txt, then IdentifyConnectedSystems()
Initialize ==
    /\ pc = "start"
    /\ LET r == IdentifyConnectedSystems(files, connected_systems)
       IN  /\ connected_systems' = r.map
           /\ pc' = IF r.threw THEN "terminated" ELSE "scan"
    /\ contacts' = contacts \o ReadLines(files, ContactsFile)
    /\ idx' = 1
    /\ UNCHANGED <<infected_systems, files, unopenable, hostIdx, sysIdx,
                   invocations, files0, run, prevRun>>

\* Scan loop, an email that is not an adversarial prompt
ScanSkip ==
    /\ pc = "scan"
    /\ idx <= Len(contacts)
    /\ ~IsAdversarialPrompt(contacts[idx])
    /\ idx' = idx + 1
    /\ UNCHANGED <<pc, contacts, connected_systems, infected_systems, files,
                   unopenable, hostIdx, sysIdx, invocations, files0, run, prevRun>>

\* Scan loop, an adversarial prompt: enter ProcessAdversarialPrompt(email)
ScanTrigger ==
    /\ pc = "scan"
    /\ idx <= Len(contacts)
    /\ IsAdversarialPrompt(contacts[idx])
    /\ pc' = "steal"
    /\ invocations' = Append(invocations, contacts[idx])
    /\ UNCHANGED <<contacts, connected_systems, infected_systems, files,
                   unopenable, idx, hostIdx, sysIdx, files0, run, prevRun>>

DoStealData ==
    /\ pc = "steal"
    /\ files' = StealData(files)
    /\ pc' = "spam"
    /\ UNCHANGED <<contacts, connected_systems, infected_systems, unopenable,
                   idx, hostIdx, sysIdx, invocations, files0, run, prevRun>>

DoSendSpamEmails ==
    /\ pc = "spam"
    /\ files' = SendSpamEmails(files)
    /\ pc' = "replicate"
    /\ UNCHANGED <<contacts, connected_systems, infected_systems, unopenable,
                   idx, hostIdx, sysIdx, invocations, files0, run, prevRun>>

\* ReplicatePrompt(email), the return of ProcessAdversarialPrompt and the
\* increment of the Scan loop
DoReplicatePrompt ==
    /\ pc = "replicate"
    /\ files' = ReplicatePrompt(files, contacts[idx])
    /\ pc' = "scan"
    /\ idx' = idx + 1
    /\ UNCHANGED <<contacts, connected_systems, infected_systems, unopenable,
                   hostIdx, sysIdx, invocations, files0, run, prevRun>>

ScanDone_Early ==
    /\ pc = "scan"
    /\ pc' = "propagate"
    /\ hostIdx' = 1
    /\ sysIdx' = 1
    /\ UNCHANGED <<contacts, connected_systems, infected_systems, files,
                   unopenable, idx, invocations, files0, run, prevRun>>

\* the Scan loop ends; the Propagate loops start at begin()
ScanDone ==
    /\ pc = "scan"
    /\ idx > Len(contacts)
    /\ pc' = "propagate"
    /\ hostIdx' = 1
    /\ sysIdx' = 1
    /\ UNCHANGED <<contacts, connected_systems, infected_systems, files,
                   unopenable, idx, invocations, files0, run, prevRun>>

\* SendPrompt(host, system), first statement
DoLogTransmission ==
    /\ pc = "propagate"
    /\ hostIdx <= Len(connected_systems)
    /\ sysIdx <= Len(connected_systems[hostIdx].val)
    /\ files' = LogTransmission(files, connected_systems[hostIdx].key,
                                connected_systems[hostIdx].val[sysIdx])
    /\ pc' = "log_infection"
    /\ UNCHANGED <<contacts, connected_systems, infected_systems, unopenable,
                   idx, hostIdx, sysIdx, invocations, files0, run, prevRun>>

\* SendPrompt(host, system), second statement, and the inner loop increment
DoLogInfection ==
    /\ pc = "log_infection"
    /\ files' = LogInfection(files, connected_systems[hostIdx].key,
                             connected_systems[hostIdx].val[sysIdx])
    /\ pc' = "propagate"
    /\ sysIdx' = sysIdx + 1
    /\ UNCHANGED <<contacts, connected_systems, infected_systems, unopenable,
                   idx, hostIdx, invocations, files0, run, prevRun>>

\* the inner loop ends: next host
NextHost ==
    /\ pc = "propagate"
    /\ hostIdx <= Len(connected_systems)
    /\ sysIdx > Len(connected_systems[hostIdx].val)
    /\ hostIdx' = hostIdx + 1
    /\ sysIdx' = 1
    /\ UNCHANGED <<pc, contacts, connected_systems, infected_systems, files,
                   unopenable, idx, invocations, files0, run, prevRun>>

\* the outer loop ends: Run() returns, main returns 0
Finish ==
    /\ pc = "propagate"
    /\ hostIdx > Len(connected_systems)
    /\ pc' = "done"
    /\ UNCHANGED <<contacts, connected_systems, infected_systems, files,
                   unopenable, idx, hostIdx, sysIdx, invocations, files0, run,
                   prevRun>>

(***************************************************************************)
(* The environment: the files present when the program starts.             *)
(***************************************************************************)
BoundedSeq(S, n) == UNION {[1..k -> S] : k \in 0..n}

RECURSIVE JoinLines(_)
JoinLines(lines) ==
    IF lines = <<>> THEN <<>>
    ELSE Head(lines) \o <<NL>> \o JoinLines(Tail(lines))

\* the same text without the line end of the last line
DropLastNL(text) == IF text = <<>> THEN text ELSE SubSeq(text, 1, Len(text) - 1)

MkFiles(entries) ==
    [n \in {e[1] : e \in entries} |-> (CHOOSE e \in entries : e[1] = n)[2]]

LineAlphabet == {SP, "a"}
LinePool == BoundedSeq(LineAlphabet, MaxLineLen)

TriggerEnd == <<"x", "_">> \o Marker
TriggerStart == Marker \o <<"z">>
NearMiss == SubSeq(Marker, 1, Len(Marker) - 1)
ContactPool == {TriggerEnd, TriggerStart, <<"y">>, NearMiss}

StaleTransmission == <<"b", " ", "-", ">", " ", "b", NL>>
StaleInfection == <<"b", " ", "i", "n", "f", "e", "c", "t", "e", "d", " ", "b", NL>>
StaleStolen == <<"o", "l", "d", NL>>
DataText == <<"d", NL, "e">>
BaseTopology == <<"a", SP, "b", NL, "a", SP, "a", NL>>

StaleEntries ==
    {<<TransmissionLog, StaleTransmission>>, <<InfectionLog, StaleInfection>>,
     <<StolenFile, StaleStolen>>}

\* the process image at program start: the globals are empty
ProcessStart ==
    /\ pc = "start"
    /\ contacts = <<>>
    /\ connected_systems = <<>>
    /\ infected_systems = <<>>
    /\ idx = 1
    /\ hostIdx = 1
    /\ sysIdx = 1
    /\ invocations = <<>>

\* any topology source, no contacts source
InitTopology ==
    /\ unopenable = {}
    /\ \E lines \in BoundedSeq(LinePool, MaxTopoLines), present \in BOOLEAN :
          /\ present \/ lines = <<>>
          /\ files = MkFiles(StaleEntries \cup
                 (IF present THEN {<<SystemsFile, JoinLines(lines)>>} ELSE {}))

\* any contacts source, over a fixed, an empty or a missing topology source
InitContacts ==
    \E cs \in BoundedSeq(ContactPool, MaxContacts),
       present \in BOOLEAN, lastNL \in BOOLEAN,
       topo \in {"missing", "empty", "base"},
       data \in BOOLEAN, stale \in BOOLEAN, blocked \in BOOLEAN :
       /\ present \/ cs = <<>>
       /\ unopenable = IF blocked THEN {StolenFile} ELSE {}
       /\ files = MkFiles(
              (IF present
               THEN {<<ContactsFile,
                       IF lastNL THEN JoinLines(cs) ELSE DropLastNL(JoinLines(cs))>>}
               ELSE {})
              \cup (CASE topo = "missing" -> {}
                      [] topo = "empty" -> {<<SystemsFile, <<>> >>}
                      [] topo = "base" ->
                           {<<SystemsFile,
                              IF lastNL THEN BaseTopology ELSE DropLastNL(BaseTopology)>>})
              \cup (IF data THEN {<<DataFile, DataText>>} ELSE {})
              \cup (IF stale THEN StaleEntries ELSE {}))

Init ==
    /\ ProcessStart
    /\ InitTopology \/ InitContacts
    /\ files0 = files
    /\ run = "first"
    /\ prevRun = [t |-> <<>>, i |-> <<>>]

Next ==
    \/ Initialize
    \/ ScanSkip
    \/ ScanTrigger
    \/ DoStealData
    \/ DoSendSpamEmails
    \/ DoReplicatePrompt
    \/ ScanDone
    \/ DoLogTransmission
    \/ DoLogInfection
    \/ NextHost
    \/ Finish

Spec == Init /\ [][Next]_vars

(***************************************************************************)
(* A second execution of the program over the files the first one left,    *)
(* after the environment has reordered the lines of the topology source.   *)
(***************************************************************************)
Content(fs, name) == IF name \in DOMAIN fs THEN fs[name] ELSE <<>>

IsPrefix(a, b) == Len(a) <= Len(b) /\ SubSeq(b, 1, Len(a)) = a

\* the lines a file has gained since the run started
AppendedLines(name) ==
    ReadLinesFrom(SubSeq(Content(files, name), Len(Content(files0, name)) + 1,
                         Len(Content(files, name))), <<>>)

LinePermutations(n) ==
    {p \in [1..n -> 1..n] : \A i, j \in 1..n : p[i] = p[j] => i = j}

Rerun ==
    /\ pc = "done"
    /\ run = "first"
    /\ LET lines == ReadLines(files, SystemsFile)
       IN  \E p \in LinePermutations(Len(lines)) :
              files' = IF SystemsFile \in DOMAIN files
                       THEN SetFile(files, SystemsFile,
                                    JoinLines([k \in 1..Len(lines) |-> lines[p[k]]]))
                       ELSE files
    /\ files0' = files'
    /\ prevRun' = [t |-> AppendedLines(TransmissionLog),
                   i |-> AppendedLines(InfectionLog)]
    /\ run' = "second"
    /\ pc' = "start"
    /\ contacts' = <<>>
    /\ connected_systems' = <<>>
    /\ infected_systems' = <<>>
    /\ idx' = 1
    /\ hostIdx' = 1
    /\ sysIdx' = 1
    /\ invocations' = <<>>
    /\ UNCHANGED unopenable

NextTwoRuns == Next \/ Rerun

SpecTwoRuns == Init /\ [][NextTwoRuns]_vars

(***************************************************************************)
(* Vocabulary of the properties.                                           *)
(***************************************************************************)
\* the edges (host, neighbor) of the topology graph
Edges ==
    UNION {{<<connected_systems[i].key, connected_systems[i].val[j]>> :
              j \in 1..Len(connected_systems[i].val)} :
           i \in 1..Len(connected_systems)}

Count(seq, x) == Cardinality({k \in 1..Len(seq) : seq[k] = x})

TransmissionLine(e) == e[1] \o Arrow \o e[2]

InfectionLine(e) == e[1] \o InfectedWord \o e[2]

AppendOnly(name) == IsPrefix(Content(files0, name), Content(files, name))

\* the text of c contains the marker somewhere
ContainsMarker(c) ==
    \E i \in 1..Len(c) :
        /\ i + Len(Marker) - 1 <= Len(c)
        /\ \A k \in 1..Len(Marker) : c[i + k - 1] = Marker[k]

Triggers(seq) == SelectSeq(seq, ContainsMarker)

\* the lines of the topology source of this run
TopologyLines == ReadLines(files0, SystemsFile)

HasDelimiter(l) == \E k \in 1..Len(l) : l[k] = SP

NoSpace(h) == \A k \in 1..Len(h) : h[k] # SP

\* the neighbors n for which a line "h n" is in the topology source
SeenFor(h) ==
    {SubSeq(l, Len(h) + 2, Len(l)) :
        l \in {x \in Elems(TopologyLines) :
                 /\ Len(x) > Len(h)
                 /\ SubSeq(x, 1, Len(h)) = h
                 /\ x[Len(h) + 1] = SP}}

LinePrefixes ==
    UNION {{SubSeq(l, 1, k) : k \in 0..Len(l)} : l \in Elems(TopologyLines)}

\* a < b in dictionary order of the code units
LexLess(a, b) ==
    \E k \in 1..Len(b) :
        /\ k <= Len(a) + 1
        /\ \A j \in 1..k - 1 : a[j] = b[j]
        /\ k <= Len(a) => Ord(a[k]) < Ord(b[k])

EdgeAscending(e1, e2) ==
    LexLess(e1[1], e2[1]) \/ (e1[1] = e2[1] /\ LexLess(e1[2], e2[2]))

InPropagate == pc \in {"propagate", "log_infection", "done"}

(***************************************************************************)
(* The ledgers.                                                            *)
(***************************************************************************)
\* C1: in one run every edge (host, neighbor) of the topology graph gets
\* exactly one line "host -> neighbor" in the transmission ledger and exactly
\* one line "host infected neighbor" in the infection ledger, the first is
\* appended before the second, and no line is appended for a non-edge.
C1_OneLinePairPerEdge ==
    LET T == AppendedLines(TransmissionLog)
        I == AppendedLines(InfectionLog)
    IN  /\ AppendOnly(TransmissionLog)
        /\ AppendOnly(InfectionLog)
        /\ \A e \in Edges :
              /\ Count(T, TransmissionLine(e)) <= 1
              /\ Count(I, InfectionLine(e)) <= Count(T, TransmissionLine(e))
        /\ \A k \in 1..Len(T) : \E e \in Edges : T[k] = TransmissionLine(e)
        /\ \A k \in 1..Len(I) : \E e \in Edges : I[k] = InfectionLine(e)
        /\ pc = "done" =>
              \A e \in Edges : /\ Count(T, TransmissionLine(e)) = 1
                               /\ Count(I, InfectionLine(e)) = 1

C1_Witness ==
    /\ pc = "done"
    /\ Cardinality(Edges) >= 2
    /\ Len(AppendedLines(InfectionLog)) >= 2

\* C2: the driver marks the neighbor in the InfectionSet before it records
\* the infection: at the end of the run every neighbor of the topology graph
\* is in the InfectionSet, and a neighbor with an InfectionMark in the ledger
\* is in the InfectionSet.
C2_NeighborsMarkedInfected ==
    /\ pc = "done" => \A e \in Edges : e[2] \in Elems(infected_systems)
    /\ \A e \in Edges :
          InfectionLine(e) \in Elems(AppendedLines(InfectionLog))
              => e[2] \in Elems(infected_systems)

C2_Reached ==
    /\ pc = "done"
    /\ Edges # {}

(***************************************************************************)
(* Scan and the Payload Executor.                                          *)
(***************************************************************************)
SpamSink(c) == c \o SpamFileSuffix

ReplicationSink(c) == c \o ReplicatedFileSuffix

\* C3: the Payload Executor is invoked exactly once for each contact that
\* contains the marker and never for another contact, and an invocation
\* writes the bulk-outbound sink and the replication sink of every contact
\* of the whole contact sequence.
C3_PayloadOncePerTrigger ==
    /\ pc = "scan" => invocations = Triggers(SubSeq(contacts, 1, idx - 1))
    /\ InPropagate => invocations = Triggers(contacts)
    /\ (pc = "scan" /\ idx > 1 /\ ContainsMarker(contacts[idx - 1])) =>
          \A k \in 1..Len(contacts) :
             /\ SpamSink(contacts[k]) \in DOMAIN files
             /\ files[SpamSink(contacts[k])] = SpamContent
             /\ ReplicationSink(contacts[k]) \in DOMAIN files
             /\ files[ReplicationSink(contacts[k])] =
                    contacts[idx - 1] \o ReplicationSuffix

C3_Witness ==
    /\ pc = "scan"
    /\ idx > 1
    /\ ContainsMarker(contacts[idx - 1])
    /\ \E k \in 1..Len(contacts) : ~ContainsMarker(contacts[k])
    /\ Find(contacts[idx - 1], Marker) > 0

\* C9: the per-contact sinks are overwritten: at the end of a run with
\* triggering contacts the replication sink of every contact holds exactly
\* "<m> replicated_prompt" for the last triggering contact m, and without a
\* triggering contact no replication sink is written.
C9_ReplicationSinkHoldsLastTrigger ==
    pc = "done" =>
        LET trig == Triggers(contacts)
        IN  IF trig = <<>>
            THEN \A n \in DOMAIN files :
                    ~(\E k \in 0..Len(n) : SubSeq(n, k + 1, Len(n)) = ReplicatedFileSuffix)
            ELSE \A k \in 1..Len(contacts) :
                    /\ ReplicationSink(contacts[k]) \in DOMAIN files
                    /\ files[ReplicationSink(contacts[k])] =
                           trig[Len(trig)] \o ReplicationSuffix

C9_Witness ==
    /\ pc = "done"
    /\ Len(Triggers(contacts)) >= 2
    /\ Triggers(contacts)[1] # Triggers(contacts)[Len(Triggers(contacts))]

\* C6: when the source-data sink or the captured-data sink cannot be opened,
\* the capture step leaves every file as it was.
C6_CaptureIsNoOp ==
    [][(pc = "steal" /\ (DataFile \notin DOMAIN files \/ ~CanOpenForWrite(StolenFile)))
          => files' = files]_vars

C6_Reached ==
    /\ pc = "spam"
    /\ DataFile \notin DOMAIN files

\* C8: no line is appended to a ledger before every contact has been
\* classified and every invocation of the Payload Executor has finished.
C8_ScanBeforePropagate ==
    (\/ Content(files, TransmissionLog) # Content(files0, TransmissionLog)
     \/ Content(files, InfectionLog) # Content(files0, InfectionLog))
    => /\ InPropagate
       /\ idx > Len(contacts)
       /\ invocations = Triggers(contacts)
       /\ invocations # <<>> =>
             \A c \in Elems(contacts) :
                /\ Content(files, SpamSink(c)) = SpamContent
                /\ Content(files, ReplicationSink(c)) =
                       invocations[Len(invocations)] \o ReplicationSuffix

C8_Witness ==
    /\ Content(files, TransmissionLog) # Content(files0, TransmissionLog)
    /\ invocations # <<>>
    /\ Len(contacts) >= 2

(***************************************************************************)
(* The topology graph.                                                     *)
(***************************************************************************)
AllLinesWellFormed == \A l \in Elems(TopologyLines) : HasDelimiter(l)

\* C4: after build() over well-formed lines "<host> <neighbor>" the set
\* mapped to a host is exactly the set of neighbors seen on its lines, with
\* duplicates collapsed, and a host seen on no line is absent from the map.
C4_NeighborSetsExact ==
    (pc # "start" /\ AllLinesWellFormed) =>
        /\ \A h \in LinePrefixes :
              (NoSpace(h) /\ SeenFor(h) # {}) =>
                  /\ h \in Keys(connected_systems)
                  /\ Elems(connected_systems[KeyIndex(connected_systems, h)].val)
                        = SeenFor(h)
        /\ \A i \in 1..Len(connected_systems) :
              /\ NoSpace(connected_systems[i].key)
              /\ SeenFor(connected_systems[i].key) # {}
              /\ connected_systems[i].val # <<>>
              /\ Len(connected_systems[i].val)
                    = Cardinality(SeenFor(connected_systems[i].key))
              /\ \A j \in 1..Len(connected_systems) :
                    connected_systems[j].key = connected_systems[i].key => i = j

C4_Witness ==
    /\ pc = "scan"
    /\ AllLinesWellFormed
    /\ \E i \in 1..Len(connected_systems) : Len(connected_systems[i].val) >= 2

\* C5 as stated: a line without a space is recorded as host = the whole line
\* and neighbor = the empty string.
C5_NoDelimiterEmptyNeighbor ==
    pc # "start" =>
        \A l \in Elems(TopologyLines) :
            ~HasDelimiter(l) =>
                /\ l \in Keys(connected_systems)
                /\ <<>> \in Elems(connected_systems[KeyIndex(connected_systems, l)].val)

\* C5 amended: a line without a space is recorded as host = the whole line
\* and neighbor = the whole line as well (npos + 1 wraps to position 0).
C5_NoDelimiterWholeLineNeighbor ==
    pc # "start" =>
        \A l \in Elems(TopologyLines) :
            ~HasDelimiter(l) =>
                /\ HostOf(l) = l
                /\ SystemOf(l) = l
                /\ l \in Keys(connected_systems)
                /\ l \in Elems(connected_systems[KeyIndex(connected_systems, l)].val)

C5_Witness ==
    /\ pc = "scan"
    /\ \E l \in Elems(TopologyLines) : ~HasDelimiter(l) /\ l # <<>>

(***************************************************************************)
(* Degradation and determinism.                                            *)
(***************************************************************************)
InputsEmpty ==
    /\ Content(files0, ContactsFile) = <<>>
    /\ Content(files0, SystemsFile) = <<>>

\* C7: with the contacts source and the topology source both empty or
\* missing the run fails nowhere, goes on until its terminal state, appends
\* nothing to a ledger and creates neither a captured-data sink nor a
\* per-contact sink: the files stay as they were.
C7_EmptyInputsNoEffect ==
    InputsEmpty =>
        /\ files = files0
        /\ pc # "terminated"
        /\ pc = "done" \/ ENABLED Next

C7_Witness ==
    /\ InputsEmpty
    /\ pc = "done"
    /\ StolenFile \notin DOMAIN files
    /\ ContactsFile \notin DOMAIN files0

\* each appended line and the one after it are lines of two edges, the
\* first below the second
SortedAppend(name) ==
    LET L == AppendedLines(name)
        E == Edges
    IN  \A i \in 1..Len(L) - 1 :
           \E e1 \in E :
              /\ L[i] \in {TransmissionLine(e1), InfectionLine(e1)}
              /\ \E e2 \in E :
                    /\ EdgeAscending(e1, e2)
                    /\ \/ L[i] = TransmissionLine(e1) /\ L[i + 1] = TransmissionLine(e2)
                       \/ L[i] = InfectionLine(e1) /\ L[i + 1] = InfectionLine(e2)

\* C10: the lines of a run are emitted in ascending order of host and then
\* of neighbor, so a second run over the same topology lines in another
\* order appends the same sequence of lines to each ledger.
C10_LedgerOrderDeterministic ==
    /\ SortedAppend(TransmissionLog)
    /\ SortedAppend(InfectionLog)
    /\ (run = "second" /\ pc = "done") =>
          /\ AppendedLines(TransmissionLog) = prevRun.t
          /\ AppendedLines(InfectionLog) = prevRun.i

C10_Witness ==
    /\ run = "second"
    /\ pc = "done"
    /\ Len(prevRun.t) >= 2
    /\ \E i, j \in 1..Len(TopologyLines) :
          /\ i < j
          /\ EdgeAscending(<<HostOf(TopologyLines[j]), SystemOf(TopologyLines[j])>>,
                           <<HostOf(TopologyLines[i]), SystemOf(TopologyLines[i])>>)
====
